---- MODULE Spec2Model ----
(***************************************************************************)
(* Order lifecycle / escrow engine of the marketplace server.              *)
(*                                                                         *)
(* The ledger (listings, secure payloads, orders, transactions, disputes,  *)
(* payouts) is the database; every handler is an async function whose      *)
(* database statements are separate awaits, none wrapped in a transaction, *)
(* so a handler is modelled as one action per statement and concurrent     *)
(* requests interleave between statements.  A request that has statements  *)
(* left occupies a slot of `calls`; `last` is the response most recently   *)
(* returned (handler, outcome, and the fields of the body).                *)
(*                                                                         *)
(* The ledger the server starts on is one the test suites set up: the      *)
(* users, one listing, and possibly one order row inserted directly, with  *)
(* the columns the suites give them.  Time is counted in minutes.          *)
(* The handlers are checked in groups, each a specification over the same  *)
(* variables: Spec is the order from its creation to the sweep (payment    *)
(* confirmation, acknowledgment, opening of disputes, the sweeper and the  *)
(* clock); SweepSpec the sweeper on a ledger of two orders; DisclosureSpec *)
(* getOrder on an order moving through its statuses; VaultSpec the secure  *)
(* payload store; CheckoutSpec order creation and payment confirmation     *)
(* with several orders per listing; RevenueSpec order creation with the    *)
(* seller's upsertListing calls and balance; OrderRowSpec every statement  *)
(* that writes an order row; MarketSpec the handlers that write listings   *)
(* next to all the others; SettlementSpec disputes and their resolution,   *)
(* with the balance; PayoutSpec payouts and BalanceSpec the balance, both  *)
(* on the ledgers of the balance and payout tests.                         *)
(***************************************************************************)
EXTENDS Integers, Sequences, FiniteSets, TLC

VARIABLES listings, payloads, orders, transactions, disputes, payouts,
          transfers, failing, reconciliation, alerts, now, calls, last

\* what lies between the server and the payment provider and its own
\* operators: the transfers requested of the provider, the sellers whose
\* transfers the provider fails at present, the orders whose transfer
\* failed and awaits manual reconciliation, and the listings reported as
\* sold twice
outbox == <<transfers, failing, reconciliation, alerts>>

vars == <<listings, payloads, orders, transactions, disputes, payouts,
          outbox, now, calls, last>>

ledger ==
  <<listings, payloads, orders, transactions, disputes, payouts, outbox>>

(* ------------------------------ bounds -------------------------------- *)

MaxOrders == 1
MaxCalls == 2
MaxTicks == 1
TickHours == 24
MaxPayouts == 2
MaxMarketPayouts == 1
MaxCheckoutOrders == 3
MaxListings == 2

(* ----------------------------- constants ------------------------------ *)

\* expires_at.setHours(expires_at.getHours() + 24)
WindowHours == 24

\* the clock: minutes since the server started
Minutes(h) == h * 60

\* minutes by which the local clock of the server's zone is moved within a
\* day: none, or forward or back where daylight saving begins or ends, by
\* an hour in most zones, half an hour in Australia/Lord_Howe and two hours
\* in Antarctica/Troll
ZoneShifts == {-120, -60, -30, 0, 30, 60, 120}

\* price_cents of the fixture listing
PriceCents == 1999

\* price_cents an update of the listing sets, and of the checkout fixture
RaisedPriceCents == 2999

\* price of the listing and total of the complete order of the payout tests
SettledOrderCents == 15000

\* totals of the complete, delivered and pending order of the balance
\* tests, and of the complete order on the other seller's listing
CompleteCents == 1000

DeliveredCents == 500

PendingCents == 300

OtherSellerCents == 5000

\* price_cents of the listing in EUR of the currency test
EuroPriceCents == 4999

\* a nullable column holding no value
NULL == -1

\* if (input.amount_cents > 1000000) throw
PayoutCeilingCents == 1000000

\* amount_cents of the payouts the tests request
PayoutCents == 10000

(* ------------------------------ the rows ------------------------------ *)

\* usersTable rows: id -> role
Users == {"buyer1", "buyer2", "seller1", "seller2", "admin1"}

\* an id with no row in usersTable
fakeAdminId == "fake1"

\* the id the routes pass as ctx.userId: the all-zero uuid, the
\* fakeAdminId of the payout tests, which has no row in usersTable
mockUserId == fakeAdminId

\* the ids the order handlers are called with: the users with a part in
\* the fixture's order or none (the second seller, who has no part in it
\* either, is left to the balance), and the id without a row
Callers == {"buyer1", "buyer2", "seller1", "admin1", mockUserId}

userRoleEnum == {"buyer", "seller", "admin"}

Role(u) ==
  CASE u \in {"seller1", "seller2"} -> "seller"
    [] u = "admin1" -> "admin"
    [] OTHER -> "buyer"

UserExists(u) == u \in Users

\* requireSeller: the callers the seller routes admit
SellerCallers ==
  {u \in Callers \cap Users : Role(u) \in {"seller", "admin"}}

\* a seller id with no row in usersTable
fakeSellerId == "fake1"

\* the listing the fixtures insert
SeedListingIds == {"L1"}

\* the ids listings can have: the fixture's and the one a new row gets
ListingPool == {"L1", "L2"}

\* rows of listingsTable
Listings == DOMAIN listings

\* an id no listing ever has
fakeListingId == "L404"

\* ids a request can name: those of the pool and the one no listing has
ListingIds == ListingPool \cup {fakeListingId}

\* input.id of upsertListing left out
NoId == "none"

\* categoriesTable rows, and a category_id no row has
Categories == {"C1"}

CategoryIds == Categories \cup {"C404"}

\* price_cents an upsertListing call asks for
Prices == {PriceCents, RaisedPriceCents}

\* the currency column: 'USD' by default and in the insert of
\* upsertListing, 'EUR' in the listing of the currency test
Currencies == {"USD", "EUR"}

listingStatusEnum == {"available", "sold", "delisted"}

orderStatusEnum ==
  {"pending", "paid", "delivered", "disputed", "complete", "refunded"}

transactionStatusEnum == {"initiated", "succeeded", "failed"}

disputeStatusEnum == {"open", "resolved_buyer", "resolved_seller", "refunded"}

payoutStatusEnum == {"requested", "processing", "paid", "failed"}

OrderIds == 1..MaxOrders

OrderExists(o) == o \in DOMAIN orders

\* the transfers requested for order o
TransfersOf(o) == {t \in DOMAIN transfers : transfers[t].order_id = o}

\* rows of disputesTable whose order_id is o
DisputesOf(o) == {d \in DOMAIN disputes : disputes[d].order_id = o}

\* rows of transactionsTable whose order_id is o
TransactionsOf(o) == {t \in DOMAIN transactions : transactions[t].order_id = o}

SellerOf(o) == listings[orders[o].listing_id].seller_id

\* what a seller stores for a listing: the account's credentials
Plaintexts == {"username:password123", "username:password456"}

\* crypto.randomBytes(32) and crypto.randomBytes(16): the draws of a store
Keys == {"k1", "k2"}

Nonces == {"n1", "n2"}

\* AES-256-GCM: the cipher text is a function of key, nonce and plaintext,
\* held in the cipher_text column as a string
Encrypt(k, n, p) == "aes-256-gcm:" \o k \o ":" \o n \o ":" \o p

\* rows of listingSecurePayloadsTable whose listing_id is l
PayloadsOf(l) == {r \in payloads : r.listing_id = l}

HasPayload(l) == PayloadsOf(l) # {}

(* ------------------------------ requests ------------------------------ *)

Slots == 1..MaxCalls

Idle ==
  [op |-> "idle", pc |-> "idle", user |-> "none", order |-> 0,
   listing |-> "none", arg |-> "none", snap |-> "none", exp |-> NULL,
   did |-> 0, payout |-> 0, key |-> "none", nonce |-> "none"]

Request(op, u, o) == [Idle EXCEPT !.op = op, !.user = u, !.order = o]

Goto(r, pc) == [r EXCEPT !.pc = pc]

\* the response of a handler: its outcome; for getOrder whether the
\* decryptedCredentials field is present and its value; for getMyBalance
\* the two sums
Response(op, res) ==
  [op |-> op, result |-> res, creds |-> FALSE,
   decryptedCredentials |-> "none", available_cents |-> NULL,
   pending_cents |-> NULL]

\* the request in slot c goes on to statement pc
Continue(c, r, pc) ==
  /\ calls' = [calls EXCEPT ![c] = Goto(r, pc)]
  /\ UNCHANGED last

\* the request in slot c returns or throws res
Finish(c, op, res) ==
  /\ calls' = [calls EXCEPT ![c] = Idle]
  /\ last' = Response(op, res)

Free(c) == calls[c].pc = "idle"

At(c, op, pc) == calls[c].op = op /\ calls[c].pc = pc

(* ------------------------------ seeding ------------------------------- *)

\* an order row as the suites insert it: the buyer's, on the fixture's
\* listing, at the listing's price; expires_at is left out of every insert
SeedOrder(s) ==
  [buyer_id |-> "buyer1", listing_id |-> "L1", total_cents |-> PriceCents,
   currency |-> "USD", status |-> s, expires_at |-> NULL]

\* the payload row of the orders suite: two literals, the cipher text of
\* no plaintext and a nonce no store draws
SeedPayload(l) ==
  [listing_id |-> l, cipher_text |-> "encrypted_content",
   nonce |-> "random_nonce"]

SeedListing(p, st, price) ==
  [seller_id |-> "seller1", price_cents |-> price, currency |-> "USD",
   status |-> st, has_secure_payload |-> p]

\* the orders suite: the listing with its payload, and no order or the
\* buyer's order pending, paid or delivered
OrdersFixture ==
  /\ listings =
       [l \in SeedListingIds |-> SeedListing(TRUE, "available", PriceCents)]
  /\ payloads = {SeedPayload(l) : l \in SeedListingIds}
  /\ \/ orders = <<>>
     \/ \E s \in {"pending", "paid", "delivered"} : orders = <<SeedOrder(s)>>
  /\ transactions = <<>>
  /\ disputes = <<>>

\* the disputes suite: the listing without a payload and the buyer's order
\* pending, paid or delivered, or disputed with the buyer's open dispute
DisputesFixture ==
  /\ listings =
       [l \in SeedListingIds |-> SeedListing(FALSE, "available", PriceCents)]
  /\ payloads = {}
  /\ \E s \in {"pending", "paid", "delivered", "disputed"} :
       /\ orders = <<SeedOrder(s)>>
       /\ disputes =
            IF s = "disputed"
              THEN <<[order_id |-> 1, opener_id |-> "buyer1",
                      status |-> "open"]>>
              ELSE <<>>
  /\ transactions = <<>>

\* the checkout suite: the listing available, or set sold or delisted by
\* an update of the row, and no order
CheckoutFixture ==
  /\ \E st \in listingStatusEnum :
       listings =
         [l \in SeedListingIds |-> SeedListing(FALSE, st, RaisedPriceCents)]
  /\ payloads = {}
  /\ orders = <<>>
  /\ transactions = <<>>
  /\ disputes = <<>>

\* the payouts suite: a complete order with its succeeded transaction
PayoutsFixture ==
  /\ listings =
       [l \in SeedListingIds |->
          SeedListing(FALSE, "available", SettledOrderCents)]
  /\ payloads = {}
  /\ orders =
       <<[SeedOrder("complete") EXCEPT !.total_cents = SettledOrderCents]>>
  /\ transactions =
       <<[order_id |-> 1, amount_cents |-> SettledOrderCents,
          status |-> "succeeded"]>>
  /\ disputes = <<>>

\* the server starts: no payout, nothing handed out, no request
Started ==
  /\ payouts = <<>>
  /\ transfers = <<>>
  /\ failing = {}
  /\ reconciliation = {}
  /\ alerts = <<>>
  /\ now = 0
  /\ calls = [c \in Slots |-> Idle]
  /\ last = Response("none", "none")

\* the orders suite's two orders of one buyer, pending and paid
OrdersByStatusFixture ==
  /\ listings =
       [l \in SeedListingIds |-> SeedListing(TRUE, "available", PriceCents)]
  /\ payloads = {SeedPayload(l) : l \in SeedListingIds}
  /\ orders = <<SeedOrder("pending"), SeedOrder("paid")>>
  /\ transactions = <<>>
  /\ disputes = <<>>

\* the checkout suite's currency test: next to the listing in USD, a
\* second one of the seller priced in EUR
CurrencyFixture ==
  /\ listings =
       [l \in ListingPool |->
          IF l \in SeedListingIds
            THEN SeedListing(FALSE, "available", RaisedPriceCents)
            ELSE [SeedListing(FALSE, "available", EuroPriceCents) EXCEPT
                    !.currency = "EUR"]]
  /\ payloads = {}
  /\ orders = <<>>
  /\ transactions = <<>>
  /\ disputes = <<>>

\* the balance suite: a complete, a delivered and a pending order on the
\* seller's listing
BalanceFixture ==
  /\ listings =
       [l \in SeedListingIds |-> SeedListing(FALSE, "available", PriceCents)]
  /\ payloads = {}
  /\ orders =
       <<[SeedOrder("complete") EXCEPT !.total_cents = CompleteCents],
         [SeedOrder("delivered") EXCEPT !.total_cents = DeliveredCents],
         [SeedOrder("pending") EXCEPT !.total_cents = PendingCents]>>
  /\ transactions = <<>>
  /\ disputes = <<>>

\* the ledgers of the order, dispute, checkout and payout suites
Fixtures ==
  \/ OrdersFixture
  \/ DisputesFixture
  \/ CheckoutFixture
  \/ PayoutsFixture

Init == Fixtures /\ Started

(* ------------------------------ getOrder ------------------------------ *)

\* const isAdmin = userRole === 'admin': the role is the handler's third
\* parameter, not the role column of the caller's users row
isAdmin(role) == role = "admin"

isBuyer(o, u) == orders[o].buyer_id = u

isSeller(o, u) == SellerOf(o) = u

HasAccess(o, u, role) == isAdmin(role) \/ isBuyer(o, u) \/ isSeller(o, u)

DiscloseCredentialsAnyCaller(o, u) ==
  /\ orders[o].status \in {"paid", "delivered", "complete"}
  /\ HasPayload(orders[o].listing_id)

DiscloseCredentials(o, u) ==
  /\ isBuyer(o, u)
  /\ orders[o].status \in {"paid", "delivered", "complete"}
  /\ HasPayload(orders[o].listing_id)

\* decryptedCredentials = `[ENCRYPTED_CREDENTIALS_FOR_LISTING_${listing.id}]`:
\* a string built from the listing's id; the payload row is not read
CredentialsPlaceholder(l) == "[ENCRYPTED_CREDENTIALS_FOR_LISTING_" \o l \o "]"

GetOrderResponse(o, u, role) ==
  IF ~OrderExists(o) THEN Response("getOrder", "NotFound")
  ELSE IF ~HasAccess(o, u, role) THEN Response("getOrder", "Forbidden")
  ELSE IF ~DiscloseCredentials(o, u) THEN Response("getOrder", "ok")
  ELSE [Response("getOrder", "ok") EXCEPT
          !.creds = TRUE,
          !.decryptedCredentials =
             CredentialsPlaceholder(orders[o].listing_id)]

\* one select (orders join listings left join payloads), then the response
GetOrder(o, u, role) ==
  /\ last' = GetOrderResponse(o, u, role)
  /\ UNCHANGED <<ledger, now, calls>>

(* ------------------- upsertListing, setListingStatus ------------------ *)

\* select ... where id = listing_id and seller_id = sellerId
OwnsListing(l, u) == l \in Listings /\ listings[l].seller_id = u

\* requests that have passed the category check and will insert a listing
UpsertInsertsInFlight == {c \in Slots : At(c, "upsertListing", "insert")}

\* 1. select the category; without it the call throws before the listing
\* is read.  Then the branch on input.id.  A call that will insert is made
\* while fewer than MaxListings listings exist or are about to.
UpsertListingSelectCategory(c, l, u, p, cat) ==
  /\ Free(c)
  /\ (cat \in Categories /\ l = NoId) =>
       Cardinality(Listings) + Cardinality(UpsertInsertsInFlight)
         < MaxListings
  /\ IF cat \notin Categories
       THEN Finish(c, "upsertListing", "CategoryNotFound")
       ELSE Continue(c, [Request("upsertListing", u, 0) EXCEPT
                           !.listing = l, !.exp = p],
                     IF l = NoId THEN "insert" ELSE "selectListing")
  /\ UNCHANGED <<ledger, now>>

\* 2. select ... where id = input.id and seller_id = sellerId
UpsertListingSelectListing(c) ==
  /\ At(c, "upsertListing", "selectListing")
  /\ IF ~OwnsListing(calls[c].listing, calls[c].user)
       THEN Finish(c, "upsertListing", "NotFoundOrDenied")
       ELSE Continue(c, calls[c], "update")
  /\ UNCHANGED <<ledger, now>>

\* 3. update listings set price_cents (and title, description, category)
\* where id = input.id
UpsertListingUpdate(c) ==
  /\ At(c, "upsertListing", "update")
  /\ listings' = [listings EXCEPT ![calls[c].listing].price_cents =
                    calls[c].exp]
  /\ Finish(c, "upsertListing", "ok")
  /\ UNCHANGED <<payloads, orders, transactions, disputes, outbox, now,
                 payouts>>

\* the id defaultRandom() gives a new row: one no listing has
NewListingId == CHOOSE l \in ListingPool : l \notin Listings

\* the other branch: insert a listing of the caller, available, without a
\* payload; seller_id references usersTable
UpsertListingInsert(c) ==
  /\ At(c, "upsertListing", "insert")
  /\ IF ~UserExists(calls[c].user)
       THEN /\ Finish(c, "upsertListing", "ForeignKeyViolation")
            /\ UNCHANGED listings
       ELSE /\ listings' =
                 [l \in Listings \cup {NewListingId} |->
                    IF l \in Listings THEN listings[l]
                    ELSE [seller_id |-> calls[c].user,
                          price_cents |-> calls[c].exp,
                          currency |-> "USD",
                          status |-> "available",
                          has_secure_payload |-> FALSE]]
            /\ Finish(c, "upsertListing", "ok")
  /\ UNCHANGED <<payloads, orders, transactions, disputes, outbox, now,
                 payouts>>

\* a handler without the check of the requested status
SetsAnyStatus(s) == FALSE

\* if (input.status === 'sold') throw
RejectsManualSold(s) == s = "sold"

\* 1. the ownership select, then the check of the requested status
SetListingStatusSelect(c, l, u, s) ==
  /\ Free(c)
  /\ IF ~OwnsListing(l, u)
       THEN Finish(c, "setListingStatus", "NotFoundOrDenied")
     ELSE IF RejectsManualSold(s)
       THEN Finish(c, "setListingStatus", "SoldRejected")
       ELSE Continue(c, [Request("setListingStatus", u, 0) EXCEPT
                           !.listing = l, !.arg = s], "update")
  /\ UNCHANGED <<ledger, now>>

\* 2. update listings set status = input.status where id = listing_id
SetListingStatusUpdate(c) ==
  /\ At(c, "setListingStatus", "update")
  /\ listings' = [listings EXCEPT ![calls[c].listing].status = calls[c].arg]
  /\ Finish(c, "setListingStatus", "ok")
  /\ UNCHANGED <<payloads, orders, transactions, disputes, outbox, now,
                 payouts>>

(* ------------------------- acknowledgeDelivery ------------------------ *)

\* if (order.status !== 'paid') throw
Acknowledgeable(s) == s = "paid"

\* expires_at.setHours(expires_at.getHours() + 24) adds to the hour of the
\* server's local time: the same wall-clock time a day later, which is 24
\* hours after t, less or more the minutes by which the zone's clock
\* changes in between
LocalDayLater(t, z) == t + Minutes(WindowHours) + z

\* select ... where id = order_id and buyer_id = buyerId, then the status
\* check; the new deadline is computed before the update is awaited; z is
\* the shift of the server's zone within the day that follows
AcknowledgeDeliverySelect(c, o, u, z) ==
  /\ Free(c)
  /\ IF ~(OrderExists(o) /\ orders[o].buyer_id = u)
       THEN Finish(c, "acknowledgeDelivery", "NotFoundOrDenied")
     ELSE IF ~Acknowledgeable(orders[o].status)
       THEN Finish(c, "acknowledgeDelivery", "InvalidState")
     ELSE Continue(c, [Request("acknowledgeDelivery", u, o) EXCEPT
                         !.exp = LocalDayLater(now, z)], "update")
  /\ UNCHANGED <<ledger, now>>

\* an update that sets the status alone
AcknowledgeDeliveryUpdateStatusOnly(c) ==
  /\ At(c, "acknowledgeDelivery", "update")
  /\ orders' = [orders EXCEPT ![calls[c].order].status = "delivered"]
  /\ Finish(c, "acknowledgeDelivery", "ok")
  /\ UNCHANGED <<listings, payloads, transactions, disputes, outbox, now,
                 payouts>>

\* update ... set status = 'delivered', expires_at where id = order_id
AcknowledgeDeliveryUpdate(c) ==
  /\ At(c, "acknowledgeDelivery", "update")
  /\ orders' = [orders EXCEPT ![calls[c].order] =
       [@ EXCEPT !.status = "delivered", !.expires_at = calls[c].exp]]
  /\ Finish(c, "acknowledgeDelivery", "ok")
  /\ UNCHANGED <<listings, payloads, transactions, disputes, outbox, now,
                 payouts>>

(* ----------------------------- openDispute ---------------------------- *)

\* a check that takes an admin for a participant
IsParticipantOrAdmin(o, u) ==
  orders[o].buyer_id = u \/ SellerOf(o) = u \/ Role(u) = "admin"

IsParticipant(o, u) == orders[o].buyer_id = u \/ SellerOf(o) = u

DisputableStatusOrComplete(s) == s \in {"paid", "delivered", "complete"}

DisputableStatus(s) == s \in {"paid", "delivered"}

DisputeNoUniqueConstraint(o) == FALSE

\* unique().on(table.order_id) of disputesTable rejects the insert
DisputeUniqueViolation(o) == DisputesOf(o) # {}

\* 1. the order joined with its listing  2. the participant check
OpenDisputeSelectOrder(c, o, u) ==
  /\ Free(c)
  /\ IF ~OrderExists(o) THEN Finish(c, "openDispute", "NotFound")
     ELSE IF ~IsParticipant(o, u) THEN Finish(c, "openDispute", "Forbidden")
     ELSE Continue(c, [Request("openDispute", u, o) EXCEPT
                         !.snap = orders[o].status], "check")
  /\ UNCHANGED <<ledger, now>>

\* 3. the existing disputes of the order, checked first; 4. the status
\* read in step 1
OpenDisputeCheck(c) ==
  /\ At(c, "openDispute", "check")
  /\ IF DisputesOf(calls[c].order) # {}
       THEN Finish(c, "openDispute", "Conflict")
     ELSE IF ~DisputableStatus(calls[c].snap)
       THEN Finish(c, "openDispute", "InvalidState")
     ELSE Continue(c, calls[c], "insert")
  /\ UNCHANGED <<ledger, now>>

\* 5. insert the dispute row in status open
OpenDisputeInsert(c) ==
  /\ At(c, "openDispute", "insert")
  /\ IF DisputeUniqueViolation(calls[c].order)
       THEN /\ Finish(c, "openDispute", "UniqueViolation")
            /\ UNCHANGED disputes
       ELSE /\ disputes' = Append(disputes,
                 [order_id |-> calls[c].order, opener_id |-> calls[c].user,
                  status |-> "open"])
            /\ Continue(c, calls[c], "update")
  /\ UNCHANGED <<listings, payloads, orders, transactions, outbox, now,
                 payouts>>

\* 6. update the order's status to disputed
OpenDisputeUpdate(c) ==
  /\ At(c, "openDispute", "update")
  /\ orders' = [orders EXCEPT ![calls[c].order].status = "disputed"]
  /\ Finish(c, "openDispute", "ok")
  /\ UNCHANGED <<listings, payloads, transactions, disputes, outbox, now,
                 payouts>>

(* ---------------------------- resolveDispute -------------------------- *)

Resolutions == {"buyer", "seller", "refund"}

DisputeStatusFor(r) ==
  IF r = "buyer" \/ r = "refund" THEN "refunded" ELSE "resolved_seller"

OrderStatusFor(r) ==
  IF r = "buyer" \/ r = "refund" THEN "refunded" ELSE "complete"

\* a check of the user row alone, not of its role
NotAnExistingUser(u) == ~UserExists(u)

\* if (admin.length === 0 || admin[0].role !== 'admin') throw
NotAnAdmin(u) == ~UserExists(u) \/ Role(u) # "admin"

\* 1. the admin's row and role
ResolveDisputeSelectAdmin(c, o, u, r) ==
  /\ Free(c)
  /\ IF NotAnAdmin(u)
       THEN Finish(c, "resolveDispute", "Forbidden")
     ELSE Continue(c, [Request("resolveDispute", u, o) EXCEPT !.arg = r],
                   "dispute")
  /\ UNCHANGED <<ledger, now>>

\* 2. the dispute of the order, which must be open
ResolveDisputeSelectDispute(c) ==
  /\ At(c, "resolveDispute", "dispute")
  /\ LET ds == DisputesOf(calls[c].order) IN
     IF ds = {} THEN Finish(c, "resolveDispute", "NotFound")
     ELSE LET d == CHOOSE x \in ds : \A y \in ds : x <= y IN
          IF disputes[d].status # "open"
            THEN Finish(c, "resolveDispute", "InvalidState")
          ELSE Continue(c, [calls[c] EXCEPT !.did = d], "updateDispute")
  /\ UNCHANGED <<ledger, now>>

\* 3. update the dispute's status
ResolveDisputeUpdateDispute(c) ==
  /\ At(c, "resolveDispute", "updateDispute")
  /\ disputes' = [disputes EXCEPT ![calls[c].did].status =
                    DisputeStatusFor(calls[c].arg)]
  /\ Continue(c, calls[c], "updateOrder")
  /\ UNCHANGED <<listings, payloads, orders, transactions, outbox, now,
                 payouts>>

\* 4. update the order's status
ResolveDisputeUpdateOrder(c) ==
  /\ At(c, "resolveDispute", "updateOrder")
  /\ orders' = [orders EXCEPT ![calls[c].order].status =
                  OrderStatusFor(calls[c].arg)]
  /\ Finish(c, "resolveDispute", "ok")
  /\ UNCHANGED <<listings, payloads, transactions, disputes, outbox, now,
                 payouts>>

(* -------------------------- createPaymentIntent ----------------------- *)

\* requests that have read the listing and will insert their order
CreatesInFlight ==
  {c \in Slots :
     At(c, "createPaymentIntent", "insertOrder") /\ UserExists(calls[c].user)}

\* a check that takes a delisted listing for an available one
ListingNotSold(l) == listings[l].status # "sold"

\* a check that also turns down a listing somebody has already ordered
ListingAvailableAndUnordered(l) ==
  /\ listings[l].status = "available"
  /\ \A o \in DOMAIN orders : orders[o].listing_id # l

\* if (listing.status !== 'available') throw
ListingAvailable(l) == listings[l].status = "available"

\* 1. the listing must exist, be available and not be the buyer's own;
\* a call that will insert an order is made while fewer than n orders
\* exist or are about to
CreatePaymentIntentSelectWithin(n, c, l, u) ==
  /\ Free(c)
  /\ (/\ l \in Listings
      /\ ListingAvailable(l)
      /\ listings[l].seller_id # u
      /\ UserExists(u)) =>
       Len(orders) + Cardinality(CreatesInFlight) < n
  /\ IF l \notin Listings THEN Finish(c, "createPaymentIntent", "NotFound")
     ELSE IF ~ListingAvailable(l)
       THEN Finish(c, "createPaymentIntent", "Unavailable")
     ELSE IF listings[l].seller_id = u
       THEN Finish(c, "createPaymentIntent", "SelfTrade")
     ELSE Continue(c, [Request("createPaymentIntent", u, 0) EXCEPT
                         !.listing = l, !.exp = listings[l].price_cents,
                         !.arg = listings[l].currency],
                   "insertOrder")
  /\ UNCHANGED <<ledger, now>>

CreatePaymentIntentSelect(c, l, u) ==
  CreatePaymentIntentSelectWithin(MaxOrders, c, l, u)

\* 2. insert the order in status pending at the listing's price and in its
\* currency, both as read; buyer_id references usersTable, so the insert
\* throws for a caller without a row and the handler ends there
CreatePaymentIntentInsertOrder(c) ==
  /\ At(c, "createPaymentIntent", "insertOrder")
  /\ IF ~UserExists(calls[c].user)
       THEN /\ Finish(c, "createPaymentIntent", "ForeignKeyViolation")
            /\ UNCHANGED orders
       ELSE /\ orders' = Append(orders,
                 [buyer_id |-> calls[c].user,
                  listing_id |-> calls[c].listing,
                  total_cents |-> calls[c].exp,
                  currency |-> calls[c].arg, status |-> "pending",
                  expires_at |-> NULL])
            /\ Continue(c, [calls[c] EXCEPT !.order = Len(orders) + 1],
                        "insertTransaction")
  /\ UNCHANGED <<listings, payloads, transactions, disputes, outbox, now,
                 payouts>>

\* 4. insert the transaction in status initiated for the order's total
CreatePaymentIntentInsertTransaction(c) ==
  /\ At(c, "createPaymentIntent", "insertTransaction")
  /\ transactions' = Append(transactions,
       [order_id |-> calls[c].order,
        amount_cents |-> orders[calls[c].order].total_cents,
        status |-> "initiated"])
  /\ Finish(c, "createPaymentIntent", "ok")
  /\ UNCHANGED <<listings, payloads, orders, disputes, outbox, now,
                 payouts>>

(* -------------------- handleStripeWebhook, the sweeper ---------------- *)

EventTypes == {"payment_intent.succeeded", "payment_intent.payment_failed"}

\* a handler that confirms the payment an event names without looking at
\* the event's signature or type
HandleStripeWebhookUnverified(o, type, signed) ==
  /\ last' = Response("handleStripeWebhook", "ok")
  /\ IF OrderExists(o) /\ orders[o].status = "pending"
       THEN /\ orders' = [orders EXCEPT ![o].status = "paid",
                                        ![o].expires_at =
                                           now + Minutes(WindowHours)]
            /\ transactions' = [t \in DOMAIN transactions |->
                 IF transactions[t].order_id = o
                   THEN [transactions[t] EXCEPT !.status = "succeeded"]
                   ELSE transactions[t]]
            /\ listings' =
                 [listings EXCEPT ![orders[o].listing_id].status = "sold"]
       ELSE UNCHANGED <<orders, transactions, listings>>
  /\ UNCHANGED <<payloads, disputes, outbox, payouts, now, calls>>

\* The handler's body is `return Promise.resolve()`: whatever the event
\* (its type, the order it names, its signature), it writes nothing and
\* resolves.
HandleStripeWebhook(o, type, signed) ==
  /\ last' = Response("handleStripeWebhook", "ok")
  /\ UNCHANGED <<ledger, now, calls>>

\* a sweeper that settles by status and deadline without looking at
\* disputes, and requests the transfer of each order it settles
ProcessExpiredOrdersIgnoringDisputes ==
  /\ last' = Response("processExpiredOrders", "ok")
  /\ orders' = [o \in DOMAIN orders |->
       IF /\ orders[o].status \in {"paid", "delivered"}
          /\ orders[o].expires_at # NULL
          /\ orders[o].expires_at <= now
         THEN [orders[o] EXCEPT !.status = "complete"]
         ELSE orders[o]]
  /\ LET requested[n \in 0..Len(orders)] ==
           IF n = 0 THEN transfers
           ELSE IF orders'[n].status # orders[n].status
             THEN Append(requested[n - 1],
                    [order_id |-> n, amount_cents |-> orders[n].total_cents])
             ELSE requested[n - 1]
     IN transfers' = requested[Len(orders)]
  /\ UNCHANGED <<listings, payloads, transactions, disputes, now, calls,
                 payouts, failing, reconciliation, alerts>>

\* The sweeper's body is `return Promise.resolve()`: a run selects and
\* settles nothing and requests no transfer.
ProcessExpiredOrders ==
  /\ last' = Response("processExpiredOrders", "ok")
  /\ UNCHANGED <<ledger, now, calls>>

(* ------------------------- setListingPayload -------------------------- *)

\* a table without the unique constraint on listing_id
PayloadNoUniqueConstraint(l) == FALSE

\* unique().on(table.listing_id): an insert for a listing that has a row
\* throws
PayloadUniqueViolation(l) == HasPayload(l)

\* 1. the ownership select, then the draw of key and nonce and the
\* encryption of the plaintext, all before the first write is awaited
SetListingPayloadSelect(c, l, u, p, k, n) ==
  /\ Free(c)
  /\ IF ~OwnsListing(l, u)
       THEN Finish(c, "setListingPayload", "NotFoundOrDenied")
       ELSE Continue(c, [Request("setListingPayload", u, 0) EXCEPT
                           !.listing = l, !.arg = p, !.key = k,
                           !.nonce = n], "delete")
  /\ UNCHANGED <<ledger, now>>

\* 2. delete ... where listing_id = input.listing_id
SetListingPayloadDelete(c) ==
  /\ At(c, "setListingPayload", "delete")
  /\ payloads' = payloads \ PayloadsOf(calls[c].listing)
  /\ Continue(c, calls[c], "insert")
  /\ UNCHANGED <<listings, orders, transactions, disputes, outbox,
                 payouts, now>>

\* 3. insert {listing_id, cipher_text, nonce}; the key is in no column
SetListingPayloadInsert(c) ==
  /\ At(c, "setListingPayload", "insert")
  /\ LET r == calls[c] IN
       IF PayloadUniqueViolation(r.listing)
         THEN /\ Finish(c, "setListingPayload", "UniqueViolation")
              /\ UNCHANGED payloads
         ELSE /\ payloads' = payloads \cup
                   {[listing_id |-> r.listing,
                     cipher_text |-> Encrypt(r.key, r.nonce, r.arg),
                     nonce |-> r.nonce]}
              /\ Continue(c, r, "update")
  /\ UNCHANGED <<listings, orders, transactions, disputes, outbox,
                 payouts, now>>

\* 4. update listings set has_secure_payload = true where id = listing_id
SetListingPayloadUpdate(c) ==
  /\ At(c, "setListingPayload", "update")
  /\ listings' =
       [listings EXCEPT ![calls[c].listing].has_secure_payload = TRUE]
  /\ Finish(c, "setListingPayload", "ok")
  /\ UNCHANGED <<payloads, orders, transactions, disputes, outbox,
                 payouts, now>>

(* ---------------------------- getMyBalance ---------------------------- *)

RECURSIVE SumPrices(_)
\* a sum over the current prices of the orders' listings
SumPrices(S) ==
  IF S = {} THEN 0
  ELSE LET o == CHOOSE x \in S : TRUE
       IN listings[orders[o].listing_id].price_cents + SumPrices(S \ {o})

RECURSIVE SumTotals(_)
\* sum(total_cents) over a set of order rows
SumTotals(S) ==
  IF S = {} THEN 0
  ELSE LET o == CHOOSE x \in S : TRUE
       IN orders[o].total_cents + SumTotals(S \ {o})

\* a balance that counts orders awaiting their payment as pending too
CountsAsPendingOrUnpaid(s) == s \in {"pending", "delivered"}

\* eq(ordersTable.status, 'delivered')
CountsAsPending(s) == s = "delivered"

\* eq(ordersTable.status, 'complete')
CountsAsAvailable(s) == s = "complete"

\* orders inner join listings where listings.seller_id = sellerId
OrdersOfSeller(u) ==
  {o \in DOMAIN orders :
     orders[o].listing_id \in DOMAIN listings /\ SellerOf(o) = u}

\* availableQuery: sum(total_cents) of the seller's complete orders; the
\* payouts table is not read
availableQuery(u) ==
  SumTotals({o \in OrdersOfSeller(u) : CountsAsAvailable(orders[o].status)})

\* pendingQuery: sum(total_cents) of the seller's delivered orders
pendingQuery(u) ==
  SumTotals({o \in OrdersOfSeller(u) : CountsAsPending(orders[o].status)})

Queries == {"availableQuery", "pendingQuery"}

RunQuery(q, u) ==
  IF q = "availableQuery" THEN availableQuery(u) ELSE pendingQuery(u)

\* Promise.all([availableQuery.execute(), pendingQuery.execute()]): the two
\* selects are two statements, run in either order.  The one that runs
\* first, q; its sum is kept until the other has run.
GetMyBalanceFirst(c, u, q) ==
  /\ Free(c)
  /\ Continue(c, [Request("getMyBalance", u, 0) EXCEPT
                    !.arg = q, !.exp = RunQuery(q, u)], "second")
  /\ UNCHANGED <<ledger, now>>

\* the body returned: the sum kept from the first select and the sum of
\* the other one, taken now
GetMyBalanceResponse(r) ==
  [Response("getMyBalance", "ok") EXCEPT
     !.available_cents =
        IF r.arg = "availableQuery" THEN r.exp ELSE availableQuery(r.user),
     !.pending_cents =
        IF r.arg = "pendingQuery" THEN r.exp ELSE pendingQuery(r.user)]

\* the other select, then the response
GetMyBalanceSecond(c) ==
  /\ At(c, "getMyBalance", "second")
  /\ calls' = [calls EXCEPT ![c] = Idle]
  /\ last' = GetMyBalanceResponse(calls[c])
  /\ UNCHANGED <<ledger, now>>

(* ------------------- requestPayout, processPayoutAdmin ---------------- *)

\* a handler without the ceiling
AmountNotPositive(a) == a <= 0

\* if (amount_cents <= 0) throw; if (amount_cents > 1000000) throw
AmountRejected(a) == a <= 0 \/ a > PayoutCeilingCents

\* requests that have passed the checks and will insert a payout
PayoutInsertsInFlight == {c \in Slots : At(c, "requestPayout", "insert")}

\* 1. the seller select, then the two checks of the amount.  The amount is
\* not compared with the seller's balance.  A call that will insert is made
\* while fewer than n payouts exist or are about to.
RequestPayoutSelectWithin(n, c, u, a) ==
  /\ Free(c)
  /\ (UserExists(u) /\ ~AmountRejected(a)) =>
       Len(payouts) + Cardinality(PayoutInsertsInFlight) < n
  /\ IF ~UserExists(u) THEN Finish(c, "requestPayout", "NotFound")
     ELSE IF AmountRejected(a)
       THEN Finish(c, "requestPayout", "InvalidAmount")
       ELSE Continue(c, [Request("requestPayout", u, 0) EXCEPT !.exp = a],
                     "insert")
  /\ UNCHANGED <<ledger, now>>

RequestPayoutSelect(c, u, a) ==
  RequestPayoutSelectWithin(MaxPayouts, c, u, a)

\* 2. insert the payout: requested, without a provider reference
RequestPayoutInsert(c) ==
  /\ At(c, "requestPayout", "insert")
  /\ payouts' = Append(payouts,
       [seller_id |-> calls[c].user, amount_cents |-> calls[c].exp,
        status |-> "requested", provider_ref |-> NULL])
  /\ Finish(c, "requestPayout", "ok")
  /\ UNCHANGED <<listings, payloads, orders, transactions, disputes,
                 outbox, now>>

PayoutExists(p) == p \in DOMAIN payouts

\* provider_ref: `stripe_payout_${Date.now()}`, a string that is never
\* null, told apart by the time of the call
ProviderRef(t) == t

\* a caller check that only looks for the user row
NotAnExistingPayoutCaller(u) == ~UserExists(u)

\* select ... from users where id = adminId and role = 'admin'
NotAPayoutAdmin(u) == ~UserExists(u) \/ Role(u) # "admin"

\* if (payout.status !== 'requested') throw
Processable(s) == s = "requested"

\* the else of updateValues: throw new Error('Invalid action')
InvalidAction(a) == a \notin {"mark_paid", "fail"}

\* 1. select ... from users where id = adminId and role = 'admin'
ProcessPayoutAdminSelectAdmin(c, p, u, a) ==
  /\ Free(c)
  /\ IF NotAPayoutAdmin(u)
       THEN Finish(c, "processPayoutAdmin", "Forbidden")
       ELSE Continue(c, [Request("processPayoutAdmin", u, 0) EXCEPT
                           !.payout = p, !.arg = a], "selectPayout")
  /\ UNCHANGED <<ledger, now>>

\* 2. the payout select and the status check, then updateValues with the
\* time of this moment, which throws for an action that is neither
\* mark_paid nor fail.  The update is a statement of its own, awaited
\* after them.
ProcessPayoutAdminSelectPayout(c) ==
  /\ At(c, "processPayoutAdmin", "selectPayout")
  /\ IF ~PayoutExists(calls[c].payout)
       THEN Finish(c, "processPayoutAdmin", "NotFound")
     ELSE IF ~Processable(payouts[calls[c].payout].status)
       THEN Finish(c, "processPayoutAdmin", "InvalidState")
     ELSE IF InvalidAction(calls[c].arg)
       THEN Finish(c, "processPayoutAdmin", "InvalidAction")
       ELSE Continue(c, [calls[c] EXCEPT !.exp = now], "update")
  /\ UNCHANGED <<ledger, now>>

\* updateData: mark_paid sets status and provider_ref, fail sets status;
\* any other action throws 'Invalid action' in place of a row to write
UpdateData(row, a, t) ==
  IF a = "mark_paid"
    THEN [row EXCEPT !.status = "paid", !.provider_ref = ProviderRef(t)]
  ELSE IF a = "fail"
    THEN [row EXCEPT !.status = "failed"]
    ELSE "Invalid action"

\* 3. update payouts set updateData where id = payout_id
ProcessPayoutAdminUpdate(c) ==
  /\ At(c, "processPayoutAdmin", "update")
  /\ payouts' = [payouts EXCEPT
       ![calls[c].payout] = UpdateData(@, calls[c].arg, calls[c].exp)]
  /\ Finish(c, "processPayoutAdmin", "ok")
  /\ UNCHANGED <<listings, payloads, orders, transactions, disputes,
                 outbox, now>>

(* ------------------------- the payment provider ----------------------- *)

\* transfer(sellerAccountRef, amount) -> success | failure: the provider
\* starts or stops failing the transfers to the sellers in S.  The server
\* has no statement that reads the answer.
ProviderOutage(S) ==
  /\ failing # S
  /\ failing' = S
  /\ UNCHANGED <<listings, payloads, orders, transactions, disputes,
                 payouts, transfers, reconciliation, alerts, now, calls,
                 last>>

(* -------------------------------- time -------------------------------- *)

Tick ==
  /\ now < MaxTicks * Minutes(TickHours)
  /\ now' = now + Minutes(TickHours)
  /\ UNCHANGED <<ledger, calls, last>>

\* an order from its creation to the sweep: createPaymentIntent, the
\* payment webhook, acknowledgeDelivery in every zone, openDispute, the
\* sweeper and the clock, on the ledger of Init
Next ==
  \/ \E c \in Slots, o \in OrderIds, u \in Callers, z \in ZoneShifts :
       AcknowledgeDeliverySelect(c, o, u, z)
  \/ \E c \in Slots : AcknowledgeDeliveryUpdate(c)
  \/ \E c \in Slots, o \in OrderIds, u \in Callers :
       OpenDisputeSelectOrder(c, o, u)
  \/ \E c \in Slots : OpenDisputeCheck(c)
  \/ \E c \in Slots : OpenDisputeInsert(c)
  \/ \E c \in Slots : OpenDisputeUpdate(c)
  \/ \E c \in Slots, l \in Listings \cup {fakeListingId}, u \in Callers :
       CreatePaymentIntentSelect(c, l, u)
  \/ \E c \in Slots : CreatePaymentIntentInsertOrder(c)
  \/ \E c \in Slots : CreatePaymentIntentInsertTransaction(c)
  \/ \E o \in OrderIds, t \in EventTypes, g \in BOOLEAN :
       HandleStripeWebhook(o, t, g)
  \/ ProcessExpiredOrders
  \/ Tick

Spec == Init /\ [][Next]_vars

\* the clock advances; nothing in the server schedules the sweeper (no
\* timer is registered and no route calls it), so its runs are the ones
\* a caller of the exported function makes
FairSpec == Init /\ [][Next]_vars /\ WF_vars(Tick)

(* ----------------------- the secure payload store --------------------- *)

\* setListingPayload calls of sellers and admins, and the getOrder calls
\* that disclose what is stored, on the ledger of Init
VaultNext ==
  \/ \E c \in Slots, l \in Listings \cup {fakeListingId},
          u \in SellerCallers, p \in Plaintexts, k \in Keys, n \in Nonces :
       SetListingPayloadSelect(c, l, u, p, k, n)
  \/ \E c \in Slots : SetListingPayloadDelete(c)
  \/ \E c \in Slots : SetListingPayloadInsert(c)
  \/ \E c \in Slots : SetListingPayloadUpdate(c)
  \/ \E o \in OrderIds, u \in Callers, role \in userRoleEnum :
       GetOrder(o, u, role)

VaultSpec == Init /\ [][VaultNext]_vars

(* ------------------------------ disclosure --------------------------- *)

\* getOrder calls of every user under every role, on an order that
\* acknowledgeDelivery, openDispute and resolveDispute take through its
\* statuses, on the ledger of Init
DisclosureNext ==
  \/ \E o \in OrderIds, u \in Callers, role \in userRoleEnum :
       GetOrder(o, u, role)
  \/ \E c \in Slots, o \in OrderIds, u \in Callers, z \in ZoneShifts :
       AcknowledgeDeliverySelect(c, o, u, z)
  \/ \E c \in Slots : AcknowledgeDeliveryUpdate(c)
  \/ \E c \in Slots, o \in OrderIds, u \in Callers :
       OpenDisputeSelectOrder(c, o, u)
  \/ \E c \in Slots : OpenDisputeCheck(c)
  \/ \E c \in Slots : OpenDisputeInsert(c)
  \/ \E c \in Slots : OpenDisputeUpdate(c)
  \/ \E c \in Slots, o \in OrderIds, u \in Callers, r \in Resolutions :
       ResolveDisputeSelectAdmin(c, o, u, r)
  \/ \E c \in Slots : ResolveDisputeSelectDispute(c)
  \/ \E c \in Slots : ResolveDisputeUpdateDispute(c)
  \/ \E c \in Slots : ResolveDisputeUpdateOrder(c)

DisclosureSpec == Init /\ [][DisclosureNext]_vars

(* ------------------------------ checkout ----------------------------- *)

\* createPaymentIntent calls of every user on a listing whose seller
\* changes its status, and the payment webhook for the orders created, on
\* the ledger of Init
CheckoutNext ==
  \/ \E c \in Slots, l \in Listings \cup {fakeListingId}, u \in Callers :
       CreatePaymentIntentSelectWithin(MaxCheckoutOrders, c, l, u)
  \/ \E c \in Slots : CreatePaymentIntentInsertOrder(c)
  \/ \E c \in Slots : CreatePaymentIntentInsertTransaction(c)
  \/ \E c \in Slots, l \in Listings \cup {fakeListingId},
          u \in SellerCallers, s \in listingStatusEnum :
       SetListingStatusSelect(c, l, u, s)
  \/ \E c \in Slots : SetListingStatusUpdate(c)
  \/ \E o \in 1..MaxCheckoutOrders, t \in EventTypes, g \in BOOLEAN :
       HandleStripeWebhook(o, t, g)

CheckoutSpec == Init /\ [][CheckoutNext]_vars

(* ------------------------ orders and the balance ---------------------- *)

\* the ledgers of Init and the one with a listing in EUR
RevenueInit == (Fixtures \/ CurrencyFixture) /\ Started

\* order creation, with the seller's upsertListing calls (a new listing or
\* an update, of a listing there is or is not, in a category there is or
\* is not) and the seller reading the balance
RevenueNext ==
  \/ \E c \in Slots, l \in Listings \cup {fakeListingId, NoId},
          u \in SellerCallers, p \in Prices, cat \in CategoryIds :
       UpsertListingSelectCategory(c, l, u, p, cat)
  \/ \E c \in Slots : UpsertListingSelectListing(c)
  \/ \E c \in Slots : UpsertListingUpdate(c)
  \/ \E c \in Slots : UpsertListingInsert(c)
  \/ \E c \in Slots, u \in SellerCallers, q \in Queries :
       GetMyBalanceFirst(c, u, q)
  \/ \E c \in Slots : GetMyBalanceSecond(c)
  \/ \E c \in Slots, l \in Listings \cup {fakeListingId}, u \in Callers :
       CreatePaymentIntentSelect(c, l, u)
  \/ \E c \in Slots : CreatePaymentIntentInsertOrder(c)
  \/ \E c \in Slots : CreatePaymentIntentInsertTransaction(c)

RevenueSpec == RevenueInit /\ [][RevenueNext]_vars

(* ------------------------- every order statement ---------------------- *)

\* the buyer, the seller and the admin of the fixtures
Parties == {"buyer1", "seller1", "admin1"}

\* every statement that inserts or updates an order row (of
\* createPaymentIntent, acknowledgeDelivery, openDispute, resolveDispute),
\* in two concurrent requests of the fixtures' buyer, seller and admin;
\* the two handlers that are to write orders and do not (the webhook, the
\* sweeper); and interleaved with these statements those of the seller's
\* upsertListing and getMyBalance calls
OrderRowNext ==
  \/ \E c \in Slots, l \in Listings, u \in Parties :
       CreatePaymentIntentSelect(c, l, u)
  \/ \E c \in Slots : CreatePaymentIntentInsertOrder(c)
  \/ \E c \in Slots : CreatePaymentIntentInsertTransaction(c)
  \/ \E o \in OrderIds, t \in EventTypes, g \in BOOLEAN :
       HandleStripeWebhook(o, t, g)
  \/ \E c \in Slots, o \in OrderIds, u \in Parties, z \in {0} :
       AcknowledgeDeliverySelect(c, o, u, z)
  \/ \E c \in Slots : AcknowledgeDeliveryUpdate(c)
  \/ \E c \in Slots, o \in OrderIds, u \in Parties :
       OpenDisputeSelectOrder(c, o, u)
  \/ \E c \in Slots : OpenDisputeCheck(c)
  \/ \E c \in Slots : OpenDisputeInsert(c)
  \/ \E c \in Slots : OpenDisputeUpdate(c)
  \/ \E c \in Slots, o \in OrderIds, u \in Parties, r \in Resolutions :
       ResolveDisputeSelectAdmin(c, o, u, r)
  \/ \E c \in Slots : ResolveDisputeSelectDispute(c)
  \/ \E c \in Slots : ResolveDisputeUpdateDispute(c)
  \/ \E c \in Slots : ResolveDisputeUpdateOrder(c)
  \/ ProcessExpiredOrders
  \/ \E c \in Slots, l \in Listings \cup {NoId},
          u \in {"seller1"}, p \in {RaisedPriceCents}, cat \in CategoryIds :
       UpsertListingSelectCategory(c, l, u, p, cat)
  \/ \E c \in Slots : UpsertListingSelectListing(c)
  \/ \E c \in Slots : UpsertListingUpdate(c)
  \/ \E c \in Slots : UpsertListingInsert(c)
  \/ \E c \in Slots, u \in {"seller1"}, q \in Queries :
       GetMyBalanceFirst(c, u, q)
  \/ \E c \in Slots : GetMyBalanceSecond(c)

OrderRowSpec == RevenueInit /\ [][OrderRowNext]_vars

(* --------------------------- every handler ---------------------------- *)

\* the handlers that write listings (upsertListing, setListingStatus,
\* setListingPayload) and every other handler that writes:
\* createPaymentIntent, the webhook, acknowledgeDelivery, openDispute,
\* resolveDispute, the sweeper, requestPayout and processPayoutAdmin, two
\* requests at a time, their statements interleaved.  The callers are the
\* fixtures' buyer, seller and admin, each with the requests of that role;
\* the seller acts on the fixture's listing or adds one, the admin resolves
\* for the seller, and one payout is requested.
MarketNext ==
  \/ \E c \in Slots, l \in Listings \cup {NoId}, u \in {"seller1"},
          p \in {PriceCents}, cat \in CategoryIds :
       UpsertListingSelectCategory(c, l, u, p, cat)
  \/ \E c \in Slots : UpsertListingSelectListing(c)
  \/ \E c \in Slots : UpsertListingUpdate(c)
  \/ \E c \in Slots : UpsertListingInsert(c)
  \/ \E c \in Slots, l \in SeedListingIds, u \in {"seller1"},
          s \in listingStatusEnum :
       SetListingStatusSelect(c, l, u, s)
  \/ \E c \in Slots : SetListingStatusUpdate(c)
  \/ \E c \in Slots, l \in SeedListingIds, u \in {"seller1"},
          p \in {"username:password456"}, k \in {"k2"}, n \in {"n2"} :
       SetListingPayloadSelect(c, l, u, p, k, n)
  \/ \E c \in Slots : SetListingPayloadDelete(c)
  \/ \E c \in Slots : SetListingPayloadInsert(c)
  \/ \E c \in Slots : SetListingPayloadUpdate(c)
  \/ \E c \in Slots, l \in SeedListingIds, u \in {"buyer1"} :
       CreatePaymentIntentSelect(c, l, u)
  \/ \E c \in Slots : CreatePaymentIntentInsertOrder(c)
  \/ \E c \in Slots : CreatePaymentIntentInsertTransaction(c)
  \/ \E o \in OrderIds, t \in EventTypes, g \in BOOLEAN :
       HandleStripeWebhook(o, t, g)
  \/ \E c \in Slots, o \in OrderIds, u \in {"buyer1"}, z \in {0} :
       AcknowledgeDeliverySelect(c, o, u, z)
  \/ \E c \in Slots : AcknowledgeDeliveryUpdate(c)
  \/ \E c \in Slots, o \in OrderIds, u \in {"buyer1"} :
       OpenDisputeSelectOrder(c, o, u)
  \/ \E c \in Slots : OpenDisputeCheck(c)
  \/ \E c \in Slots : OpenDisputeInsert(c)
  \/ \E c \in Slots : OpenDisputeUpdate(c)
  \/ \E c \in Slots, o \in OrderIds, u \in {"admin1"}, r \in {"seller"} :
       ResolveDisputeSelectAdmin(c, o, u, r)
  \/ \E c \in Slots : ResolveDisputeSelectDispute(c)
  \/ \E c \in Slots : ResolveDisputeUpdateDispute(c)
  \/ \E c \in Slots : ResolveDisputeUpdateOrder(c)
  \/ ProcessExpiredOrders
  \/ \E c \in Slots, u \in {"seller1"}, a \in {PayoutCents} :
       RequestPayoutSelectWithin(MaxMarketPayouts, c, u, a)
  \/ \E c \in Slots : RequestPayoutInsert(c)
  \/ \E c \in Slots, p \in {1}, u \in {"admin1"}, a \in {"mark_paid"} :
       ProcessPayoutAdminSelectAdmin(c, p, u, a)
  \/ \E c \in Slots : ProcessPayoutAdminSelectPayout(c)
  \/ \E c \in Slots : ProcessPayoutAdminUpdate(c)

MarketSpec == Init /\ [][MarketNext]_vars

(* ------------------------------ the sweep ----------------------------- *)

\* the ledger of an order alone and the one of two orders
SweepInit == (OrdersFixture \/ OrdersByStatusFixture) /\ Started

\* the sweeper and the clock, with acknowledgeDelivery and openDispute on
\* the orders of a ledger and the provider failing transfers or not
SweepNext ==
  \/ \E c \in Slots, o \in DOMAIN orders, u \in Parties, z \in ZoneShifts :
       AcknowledgeDeliverySelect(c, o, u, z)
  \/ \E c \in Slots : AcknowledgeDeliveryUpdate(c)
  \/ \E c \in Slots, o \in DOMAIN orders, u \in Parties :
       OpenDisputeSelectOrder(c, o, u)
  \/ \E c \in Slots : OpenDisputeCheck(c)
  \/ \E c \in Slots : OpenDisputeInsert(c)
  \/ \E c \in Slots : OpenDisputeUpdate(c)
  \/ \E S \in SUBSET {"seller1"} : ProviderOutage(S)
  \/ ProcessExpiredOrders
  \/ Tick

SweepSpec == SweepInit /\ [][SweepNext]_vars

\* the ledgers of Init and the balance suite's, of three orders
SettlementInit == (Fixtures \/ BalanceFixture) /\ Started

\* the disputes of an order and their resolution, with the seller reading
\* the balance
SettlementNext ==
  \/ \E c \in Slots, u \in SellerCallers, q \in Queries :
       GetMyBalanceFirst(c, u, q)
  \/ \E c \in Slots : GetMyBalanceSecond(c)
  \/ \E c \in Slots, o \in OrderIds \cup DOMAIN orders, u \in Callers,
          z \in ZoneShifts :
       AcknowledgeDeliverySelect(c, o, u, z)
  \/ \E c \in Slots : AcknowledgeDeliveryUpdate(c)
  \/ \E c \in Slots, o \in OrderIds \cup DOMAIN orders, u \in Callers :
       OpenDisputeSelectOrder(c, o, u)
  \/ \E c \in Slots : OpenDisputeCheck(c)
  \/ \E c \in Slots : OpenDisputeInsert(c)
  \/ \E c \in Slots : OpenDisputeUpdate(c)
  \/ \E c \in Slots, o \in OrderIds \cup DOMAIN orders, u \in Callers,
          r \in Resolutions :
       ResolveDisputeSelectAdmin(c, o, u, r)
  \/ \E c \in Slots : ResolveDisputeSelectDispute(c)
  \/ \E c \in Slots : ResolveDisputeUpdateDispute(c)
  \/ \E c \in Slots : ResolveDisputeUpdateOrder(c)

SettlementSpec == SettlementInit /\ [][SettlementNext]_vars

(* ------------------------- balance and payouts ------------------------ *)

BalanceListings == {"L1", "L2"}

\* the second listing belongs to the other seller
BalanceSellerOf(l) == IF l = "L1" THEN "seller1" ELSE "seller2"

BalanceListing(l, price) ==
  [seller_id |-> BalanceSellerOf(l), price_cents |-> price,
   currency |-> "USD", status |-> "available",
   has_secure_payload |-> FALSE]

BalanceOrder(l, total, s) ==
  [buyer_id |-> "buyer1", listing_id |-> l, total_cents |-> total,
   currency |-> "USD", status |-> s, expires_at |-> NULL]

\* the ledgers of the balance and payout suites: the seller's listing with
\* no order, or with a complete, a delivered and a pending order; the
\* listings of two sellers with a complete order each; the seller's
\* listing with a complete order and its succeeded transaction
PayoutInit ==
  /\ \/ /\ listings = [l \in {"L1"} |-> BalanceListing(l, PriceCents)]
        /\ \/ orders = <<>>
           \/ orders = <<BalanceOrder("L1", CompleteCents, "complete"),
                         BalanceOrder("L1", DeliveredCents, "delivered"),
                         BalanceOrder("L1", PendingCents, "pending")>>
        /\ transactions = <<>>
     \/ /\ listings =
             [l \in BalanceListings |-> BalanceListing(l, PriceCents)]
        /\ orders = <<BalanceOrder("L1", CompleteCents, "complete"),
                      BalanceOrder("L2", OtherSellerCents, "complete")>>
        /\ transactions = <<>>
     \/ /\ listings =
             [l \in {"L1"} |-> BalanceListing(l, SettledOrderCents)]
        /\ orders = <<BalanceOrder("L1", SettledOrderCents, "complete")>>
        /\ transactions =
             <<[order_id |-> 1, amount_cents |-> SettledOrderCents,
                status |-> "succeeded"]>>
  /\ payloads = {}
  /\ disputes = <<>>
  /\ Started

\* the two sellers of the balance suite
BalanceSellers == {"seller1", "seller2"}

PayoutIds == 1..MaxPayouts

PayoutAmounts == {0, PayoutCents, PayoutCeilingCents, PayoutCeilingCents + 1}

\* the actions of the schema, and the one the tests pass past it
PayoutActions == {"mark_paid", "fail", "invalid_action"}

\* requestPayout and processPayoutAdmin calls on the ledger of the
\* balance tests
PayoutNext ==
  \/ \E c \in Slots, u \in SellerCallers \cup {fakeSellerId},
          a \in PayoutAmounts :
       RequestPayoutSelect(c, u, a)
  \/ \E c \in Slots : RequestPayoutInsert(c)
  \/ \E c \in Slots, p \in PayoutIds,
          u \in SellerCallers \cup {fakeAdminId}, a \in PayoutActions :
       ProcessPayoutAdminSelectAdmin(c, p, u, a)
  \/ \E c \in Slots : ProcessPayoutAdminSelectPayout(c)
  \/ \E c \in Slots : ProcessPayoutAdminUpdate(c)

PayoutSpec == PayoutInit /\ [][PayoutNext]_vars

\* getMyBalance calls of the two sellers while payouts are requested, on
\* the ledger of the balance tests
BalanceNext ==
  \/ \E c \in Slots, u \in BalanceSellers, q \in Queries :
       GetMyBalanceFirst(c, u, q)
  \/ \E c \in Slots : GetMyBalanceSecond(c)
  \/ \E c \in Slots, u \in BalanceSellers, a \in PayoutAmounts :
       RequestPayoutSelect(c, u, a)
  \/ \E c \in Slots : RequestPayoutInsert(c)

BalanceSpec == PayoutInit /\ [][BalanceNext]_vars

\* the column types of the ledger tables
TypeOK ==
  /\ \A l \in Listings :
       /\ listings[l].seller_id \in Users
       /\ listings[l].status \in listingStatusEnum
       /\ listings[l].price_cents \in Nat
       /\ listings[l].currency \in Currencies
       /\ listings[l].has_secure_payload \in BOOLEAN
  /\ \A r \in payloads :
       /\ r.listing_id \in Listings
       /\ r.cipher_text \in
            {Encrypt(k, n, p) : k \in Keys, n \in Nonces, p \in Plaintexts}
              \cup {"encrypted_content"}
       /\ r.nonce \in Nonces \cup {"random_nonce"}
  /\ \A o \in DOMAIN orders :
       /\ orders[o].buyer_id \in Users
       /\ orders[o].listing_id \in Listings
       /\ orders[o].status \in orderStatusEnum
       /\ orders[o].total_cents \in Nat
       /\ orders[o].currency \in Currencies
       /\ orders[o].expires_at \in {NULL} \cup Nat
  /\ \A t \in DOMAIN transactions :
       /\ transactions[t].order_id \in DOMAIN orders
       /\ transactions[t].status \in transactionStatusEnum
  /\ \A d \in DOMAIN disputes :
       /\ disputes[d].order_id \in DOMAIN orders
       /\ disputes[d].opener_id \in Users
       /\ disputes[d].status \in disputeStatusEnum
  /\ \A u \in Users : Role(u) \in userRoleEnum

(* ------------------------------ the claims ---------------------------- *)

\* Every step of a handler that changes the state shows the handler's name:
\* in the response it returns, or in the request that moves on or ends.
StepOf(op) ==
  \/ last' # last /\ last'.op = op
  \/ \E c \in Slots :
       calls'[c] # calls[c] /\ (calls[c].op = op \/ calls'[c].op = op)

AllowedEdges ==
  {<<"pending", "paid">>, <<"paid", "delivered">>, <<"paid", "disputed">>,
   <<"delivered", "disputed">>, <<"paid", "complete">>,
   <<"delivered", "complete">>, <<"disputed", "complete">>,
   <<"disputed", "refunded">>}

\* C1: every change of an order's status is an edge of the lifecycle graph
\* (pending->paid, paid->delivered, paid|delivered->disputed,
\* paid|delivered|disputed->complete, disputed->refunded).
C1_OnlyGraphEdges ==
  [][\A o \in DOMAIN orders :
       orders'[o].status # orders[o].status =>
         <<orders[o].status, orders'[o].status>> \in AllowedEdges]_vars

HasInitiatedTransaction(o) ==
  \E t \in TransactionsOf(o) : transactions[t].status = "initiated"

\* C2: an authentic payment-success event is applied exactly once: the
\* delivery that finds the transaction initiated moves it to succeeded and
\* the order from pending to paid with a deadline; every other delivery
\* changes nothing and is reported as success.
C2_ConfirmedExactlyOnce ==
  [][\A o \in DOMAIN orders :
       HandleStripeWebhook(o, "payment_intent.succeeded", TRUE) =>
         /\ last'.result = "ok"
         /\ IF HasInitiatedTransaction(o) /\ orders[o].status = "pending"
              THEN /\ \A t \in TransactionsOf(o) :
                        transactions'[t].status = "succeeded"
                   /\ orders'[o].status = "paid"
                   /\ orders'[o].expires_at # NULL
              ELSE UNCHANGED ledger]_vars

\* C3: the first authentic payment-success event for a pending order
\* leaves, in one step, the transaction succeeded, the order paid, the
\* listing sold and expires_at = confirmation time + 24 hours.
C3_FirstConfirmation ==
  [][\A o \in DOMAIN orders :
       (HandleStripeWebhook(o, "payment_intent.succeeded", TRUE)
          /\ orders[o].status = "pending") =>
         /\ \A t \in TransactionsOf(o) : transactions'[t].status = "succeeded"
         /\ orders'[o].status = "paid"
         /\ listings'[orders[o].listing_id].status = "sold"
         /\ orders'[o].expires_at = now + Minutes(WindowHours)]_vars

DisclosureEligible(o, u) ==
  /\ u = orders[o].buyer_id
  /\ orders[o].status \notin {"pending", "disputed", "refunded"}

\* C4 as stated: get-order includes the credentials if and only if the
\* caller is the order's buyer and the status is paid, delivered or
\* complete.
C4_DisclosedIffBuyerAndStatus ==
  [][\A o \in DOMAIN orders, u \in Callers, role \in userRoleEnum :
       GetOrder(o, u, role) =>
         (last'.creds <=> DisclosureEligible(o, u))]_vars

\* C4 amended: get-order includes the credentials if and only if the caller
\* is the order's buyer, the status is paid, delivered or complete, and the
\* order's listing has a stored secure payload.
C4_DisclosedIffBuyerStatusAndPayload ==
  [][StepOf("getOrder") =>
     \A o \in DOMAIN orders, u \in Callers, role \in userRoleEnum :
       GetOrder(o, u, role) =>
         (last'.creds <=>
            (DisclosureEligible(o, u)
               /\ \E r \in payloads :
                    r.listing_id = orders[o].listing_id))]_vars

C4_Witness ==
  /\ last.op = "getOrder"
  /\ last.creds
  /\ \E o \in DOMAIN orders : orders[o].status = "paid"

\* C5: get-order on an existing order never raises an error: credentials
\* that are withheld show only as an absent field, also for a caller who is
\* neither buyer, seller nor admin, who gets a result without credentials.
C5_WithheldNeverRaises ==
  [][\A o \in DOMAIN orders, u \in Callers, role \in userRoleEnum :
       GetOrder(o, u, role) =>
         /\ last'.result = "ok"
         /\ ~DisclosureEligible(o, u) => ~last'.creds]_vars

\* C6: a sweep never changes an order for which a dispute exists, and
\* requests no transfer for it, whatever open-dispute statements it runs
\* between.
C6_SweepLeavesDisputedOrders ==
  [][ProcessExpiredOrders =>
       \A o \in DOMAIN orders :
         DisputesOf(o) # {} =>
           /\ orders'[o] = orders[o]
           /\ TransfersOf(o)' = TransfersOf(o)]_vars

C6_Witness ==
  /\ last.op = "processExpiredOrders"
  /\ \E o \in DOMAIN orders :
       /\ orders[o].status = "disputed"
       /\ orders[o].expires_at # NULL
       /\ orders[o].expires_at <= now
       /\ \E d \in DisputesOf(o) : disputes[d].status = "open"

Settleable(o) ==
  /\ orders[o].status \in {"paid", "delivered"}
  /\ orders[o].expires_at # NULL
  /\ orders[o].expires_at <= now
  /\ DisputesOf(o) = {}

\* C7: a sweep changes an order to complete if and only if the order is
\* paid or delivered, its expires_at is not later than now and it has no
\* dispute; every other order is left unchanged.
C7_SweepSettlesExactlyEligible ==
  [][ProcessExpiredOrders =>
       \A o \in DOMAIN orders :
         IF Settleable(o)
           THEN orders'[o].status = "complete"
           ELSE orders'[o] = orders[o]]_vars

Due(o) == OrderExists(o) /\ Settleable(o)

\* C8: given that the clock advances and the sweeper keeps being run
\* (weak fairness on the sweep), an order that is paid or delivered,
\* undisputed and past its expires_at eventually is complete (or stops
\* being due: a dispute is opened or an acknowledgment moves its deadline).
C8_EventuallyComplete ==
  WF_vars(ProcessExpiredOrders) =>
    \A o \in OrderIds :
      [](Due(o) =>
           <>((OrderExists(o) /\ orders[o].status = "complete") \/ ~Due(o)))

\* C9: at most one dispute exists per order in every state, and an
\* open-dispute statement run while a dispute exists for the order ends the
\* call with Conflict (the check) or the uniqueness error (the insert) and
\* writes nothing.
C9_AtMostOneDispute ==
  /\ [](\A o \in DOMAIN orders : Cardinality(DisputesOf(o)) <= 1)
  /\ [][\A c \in Slots :
          (/\ calls[c].op = "openDispute"
           /\ calls[c].pc \in {"check", "insert"}
           /\ calls'[c] # calls[c]
           /\ DisputesOf(calls[c].order) # {}) =>
            /\ calls'[c] = Idle
            /\ last' = Response("openDispute",
                 IF calls[c].pc = "check" THEN "Conflict"
                 ELSE "UniqueViolation")
            /\ UNCHANGED ledger]_vars

C9_Witness ==
  /\ last = Response("openDispute", "UniqueViolation")
  /\ \E o \in DOMAIN orders : Cardinality(DisputesOf(o)) = 1

\* C10 as stated: open-dispute by a participant on an order whose status
\* is pending or complete fails with InvalidState and changes neither
\* orders nor disputes, however the status was reached.
C10_InvalidStateOnPendingOrComplete ==
  [][\A c \in Slots :
       (/\ At(c, "openDispute", "check")
        /\ calls'[c] # calls[c]
        /\ calls[c].snap \in {"pending", "complete"}) =>
         /\ last' = Response("openDispute", "InvalidState")
         /\ UNCHANGED <<orders, disputes>>]_vars

\* C10 amended: on a pending or complete order open-dispute by a
\* participant changes neither orders nor disputes and fails with
\* InvalidState when the order has no dispute, with Conflict when it has one
\* (an order completed by a seller-favoured resolution); on a paid or
\* delivered order without a dispute it goes on to insert a dispute in
\* status open, unless the uniqueness constraint rejects the insert, and
\* then sets the order's status to disputed.
C10_InvalidStateOrConflict ==
  [][\A c \in Slots :
       /\ (/\ At(c, "openDispute", "check")
           /\ calls'[c] # calls[c]
           /\ calls[c].snap \in {"pending", "complete"}) =>
            /\ last' = Response("openDispute",
                 IF DisputesOf(calls[c].order) = {} THEN "InvalidState"
                 ELSE "Conflict")
            /\ calls'[c] = Idle
            /\ UNCHANGED <<orders, disputes>>
       /\ (/\ At(c, "openDispute", "check")
           /\ calls'[c] # calls[c]
           /\ calls[c].snap \in {"paid", "delivered"}
           /\ DisputesOf(calls[c].order) = {}) =>
            /\ calls'[c].pc = "insert"
            /\ UNCHANGED <<orders, disputes>>
       /\ (/\ At(c, "openDispute", "insert")
           /\ calls'[c] # calls[c]
           /\ DisputesOf(calls[c].order) = {}) =>
            /\ calls'[c].pc = "update"
            /\ Len(disputes') = Len(disputes) + 1
            /\ disputes'[Len(disputes')] =
                 [order_id |-> calls[c].order, opener_id |-> calls[c].user,
                  status |-> "open"]
       /\ (/\ At(c, "openDispute", "update")
           /\ calls'[c] # calls[c]) =>
            /\ orders'[calls[c].order].status = "disputed"
            /\ last' = Response("openDispute", "ok")]_vars

C10_Witness ==
  /\ last = Response("openDispute", "InvalidState")
  /\ \E o \in DOMAIN orders : orders[o].status = "complete"

\* C11: open-dispute by a user who is neither the order's buyer nor the
\* seller of the order's listing fails with Forbidden whatever the order's
\* status, creates no dispute and leaves the order unchanged.
C11_NonParticipantForbidden ==
  [][StepOf("openDispute") =>
     \A c \in Slots, o \in DOMAIN orders, u \in Callers :
       (/\ u # orders[o].buyer_id
        /\ u # listings[orders[o].listing_id].seller_id
        /\ OpenDisputeSelectOrder(c, o, u)) =>
         /\ last' = Response("openDispute", "Forbidden")
         /\ calls'[c] = Idle
         /\ UNCHANGED <<orders, disputes>>]_vars

C11_Witness ==
  /\ last = Response("openDispute", "Forbidden")
  /\ \E o \in DOMAIN orders : orders[o].status = "refunded"

\* C12: a resolve-dispute that returns leaves the dispute and the order in
\* the statuses of its resolution (seller: resolved_seller and complete;
\* buyer or refund: refunded and refunded), and no statement of a
\* resolve-dispute writes once the dispute is no longer open: the call
\* fails with InvalidState and changes neither the dispute nor the order.
C12_ResolutionDecidesBoth ==
  [][\A c \in Slots :
       /\ (At(c, "resolveDispute", "updateOrder") /\ calls'[c] # calls[c]) =>
            /\ last' = Response("resolveDispute", "ok")
            /\ orders'[calls[c].order].status = OrderStatusFor(calls[c].arg)
            /\ disputes'[calls[c].did].status =
                 DisputeStatusFor(calls[c].arg)
       /\ (/\ calls[c].op = "resolveDispute"
           /\ calls[c].pc # "updateOrder"
           /\ calls'[c] # calls[c]
           /\ \E d \in DisputesOf(calls[c].order) :
                disputes[d].status # "open") =>
            /\ last' = Response("resolveDispute", "InvalidState")
            /\ UNCHANGED <<orders, disputes>>]_vars

\* C13: resolve-dispute called with the id of a user who does not exist or
\* whose role is not admin fails with Forbidden and changes neither the
\* disputes nor the orders.
C13_NonAdminForbidden ==
  [][StepOf("resolveDispute") =>
     \A c \in Slots, o \in OrderIds, u \in Callers \cup {fakeAdminId} :
       (/\ u \notin Users \/ Role(u) # "admin"
        /\ \E r \in Resolutions : ResolveDisputeSelectAdmin(c, o, u, r)) =>
         /\ last' = Response("resolveDispute", "Forbidden")
         /\ calls'[c] = Idle
         /\ UNCHANGED <<orders, disputes>>]_vars

C13_Witness ==
  /\ last = Response("resolveDispute", "Forbidden")
  /\ \E d \in DOMAIN disputes :
       /\ disputes[d].status = "open"
       /\ orders[disputes[d].order_id].status = "disputed"

\* C14: acknowledge-delivery on an existing order fails with Forbidden
\* when the caller is not the order's buyer, and with InvalidState when the
\* caller is the buyer and the status is not paid (pending, delivered,
\* disputed, complete, refunded); in both cases the order is left as it
\* was.
C14_ForbiddenOrInvalidState ==
  [][StepOf("acknowledgeDelivery") =>
     \A c \in Slots, o \in DOMAIN orders, u \in Callers, z \in ZoneShifts :
       AcknowledgeDeliverySelect(c, o, u, z) =>
         /\ u # orders[o].buyer_id =>
              /\ last' = Response("acknowledgeDelivery", "Forbidden")
              /\ calls'[c] = Idle
              /\ orders' = orders
         /\ (u = orders[o].buyer_id /\ orders[o].status # "paid") =>
              /\ last' = Response("acknowledgeDelivery", "InvalidState")
              /\ calls'[c] = Idle
              /\ orders' = orders]_vars

\* C15: an acknowledge-delivery by the buyer on a paid order takes the
\* acknowledgment time plus 24 hours as the new deadline, and its update
\* sets the status to delivered and expires_at to that deadline, whatever
\* deadline the order had from the payment confirmation.
C15_AcknowledgeSetsDeliveredAndDeadline ==
  [][StepOf("acknowledgeDelivery") =>
     \A c \in Slots :
       /\ \A o \in DOMAIN orders, u \in Callers, z \in ZoneShifts :
            (/\ AcknowledgeDeliverySelect(c, o, u, z)
             /\ u = orders[o].buyer_id
             /\ orders[o].status = "paid") =>
              /\ calls'[c].pc = "update"
              /\ calls'[c].order = o
              /\ calls'[c].exp = now + Minutes(WindowHours)
       /\ (At(c, "acknowledgeDelivery", "update") /\ calls'[c] # calls[c]) =>
            /\ last' = Response("acknowledgeDelivery", "ok")
            /\ orders'[calls[c].order].status = "delivered"
            /\ orders'[calls[c].order].expires_at = calls[c].exp]_vars

\* C16: create-order fails with NotFound when the listing does not exist,
\* with Unavailable when the listing is sold or delisted, and with SelfTrade
\* when the buyer is the seller of an available listing; in each case no
\* order and no transaction is created and the listing is unchanged.
C16_CreateOrderRejected ==
  [][StepOf("createPaymentIntent") =>
     \A c \in Slots, l \in ListingIds, u \in Callers :
       CreatePaymentIntentSelectWithin(MaxCheckoutOrders, c, l, u) =>
         /\ l \notin Listings =>
              /\ last' = Response("createPaymentIntent", "NotFound")
              /\ calls'[c] = Idle
              /\ UNCHANGED <<orders, transactions, listings>>
         /\ (l \in Listings /\ listings[l].status \in {"sold", "delisted"}) =>
              /\ last' = Response("createPaymentIntent", "Unavailable")
              /\ calls'[c] = Idle
              /\ UNCHANGED <<orders, transactions, listings>>
         /\ (/\ l \in Listings
             /\ listings[l].status = "available"
             /\ listings[l].seller_id = u) =>
              /\ last' = Response("createPaymentIntent", "SelfTrade")
              /\ calls'[c] = Idle
              /\ UNCHANGED <<orders, transactions, listings>>]_vars

C16_Witness ==
  /\ last = Response("createPaymentIntent", "Unavailable")
  /\ \E l \in Listings : listings[l].status = "sold"

\* C17: a create-order that succeeds (its buyer has a users row) inserts
\* exactly one order, pending, with a null expires_at and the price and the
\* currency the listing has at that moment as its total and currency, then
\* exactly one transaction, initiated, for the order's total; it leaves the
\* listing as it is.
C17_OrderAtListingPrice ==
  [][StepOf("createPaymentIntent") =>
     \A c \in Slots :
       /\ (/\ At(c, "createPaymentIntent", "insertOrder")
           /\ UserExists(calls[c].user)
           /\ calls'[c] # calls[c]) =>
            /\ Len(orders') = Len(orders) + 1
            /\ orders'[Len(orders')] =
                 [buyer_id |-> calls[c].user,
                  listing_id |-> calls[c].listing,
                  total_cents |-> listings[calls[c].listing].price_cents,
                  currency |-> listings[calls[c].listing].currency,
                  status |-> "pending", expires_at |-> NULL]
            /\ listings' = listings
       /\ (/\ At(c, "createPaymentIntent", "insertTransaction")
           /\ calls'[c] # calls[c]) =>
            /\ last' = Response("createPaymentIntent", "ok")
            /\ Len(transactions') = Len(transactions) + 1
            /\ transactions'[Len(transactions')] =
                 [order_id |-> calls[c].order,
                  amount_cents |-> orders[calls[c].order].total_cents,
                  status |-> "initiated"]
            /\ listings' = listings]_vars

\* the operations that are not to make a listing sold
NeverSelling ==
  {"createPaymentIntent", "acknowledgeDelivery", "openDispute",
   "resolveDispute", "requestPayout", "processPayoutAdmin",
   "processExpiredOrders", "upsertListing", "setListingStatus",
   "setListingPayload"}

\* the listings that are sold
Sold == {l \in Listings : listings[l].status = "sold"}

\* C18: a step that makes a listing sold is the confirmation of a payment
\* for an order on that listing, and a listing is not created sold;
\* set-listing-status with target sold is rejected and leaves the listings
\* unchanged; and no step of create-order, acknowledge-delivery, the
\* disputes, the payouts, the sweeper or any other seller action makes a
\* listing sold that was not.
C18_SoldOnlyByConfirmation ==
  [][/\ \A l \in DOMAIN listings' :
          (listings'[l].status = "sold" /\ l \notin Sold) =>
            \E o \in DOMAIN orders :
              /\ orders[o].listing_id = l
              /\ HandleStripeWebhook(o, "payment_intent.succeeded", TRUE)
     /\ \A c \in Slots, l \in ListingIds, u \in SellerCallers :
          SetListingStatusSelect(c, l, u, "sold") =>
            /\ calls'[c] = Idle
            /\ last'.op = "setListingStatus"
            /\ last'.result # "ok"
            /\ listings' = listings
     /\ \A op \in NeverSelling : StepOf(op) => Sold' \subseteq Sold]_vars

C18_Witness ==
  /\ last = Response("setListingStatus", "SoldRejected")
  /\ \E l \in Listings : listings[l].status = "delisted"
  /\ \E o \in DOMAIN orders : orders[o].status = "complete"
  /\ \E p \in DOMAIN payouts : payouts[p].status = "paid"

\* C19: a listing that is sold never becomes available again, and
\* create-order on it fails with Unavailable.
C19_SoldStaysUnavailable ==
  [][\A l \in Listings :
       listings[l].status = "sold" =>
         /\ listings'[l].status # "available"
         /\ \A c \in Slots, u \in Callers :
              CreatePaymentIntentSelectWithin(MaxCheckoutOrders, c, l, u) =>
                last' = Response("createPaymentIntent", "Unavailable")]_vars

\* the orders on listing l that are paid or further on
PaidOrLaterOn(l) ==
  {o \in DOMAIN orders :
     orders[o].listing_id = l /\ orders[o].status # "pending"}

\* the alerts recorded for listing l
AlertsFor(l) == {a \in DOMAIN alerts : alerts[a] = l}

\* C20: of two orders created pending on one listing each becomes paid by
\* the authentic payment-success event for it; the confirmation that finds
\* the listing sold already records one reconciliation alert for the
\* listing and the one that does not records none; and in every state the
\* alerts of a listing with paid-or-later orders are one fewer than these
\* orders.
C20_DoubleSaleHonouredAndRecorded ==
  /\ [][\A o \in DOMAIN orders, other \in DOMAIN orders :
          (/\ other # o
           /\ orders[other].listing_id = orders[o].listing_id
           /\ orders[o].status = "pending"
           /\ HasInitiatedTransaction(o)
           /\ HasInitiatedTransaction(other)
           /\ HandleStripeWebhook(o, "payment_intent.succeeded", TRUE)) =>
            /\ orders'[o].status = "paid"
            /\ alerts' =
                 IF listings[orders[o].listing_id].status = "sold"
                   THEN Append(alerts, orders[o].listing_id)
                   ELSE alerts]_vars
  /\ [](\A l \in Listings :
          PaidOrLaterOn(l) # {} =>
            Cardinality(AlertsFor(l)) = Cardinality(PaidOrLaterOn(l)) - 1)

\* C21: a webhook event whose signature does not match, and an event of
\* any type other than payment success, changes no transaction, no order
\* and no listing.
C21_RejectedEventChangesNothing ==
  [][StepOf("handleStripeWebhook") =>
     \A o \in OrderIds, t \in EventTypes, g \in BOOLEAN :
       (HandleStripeWebhook(o, t, g)
          /\ (~g \/ t # "payment_intent.succeeded")) =>
         UNCHANGED <<transactions, orders, listings>>]_vars

C21_Witness ==
  /\ last.op = "handleStripeWebhook"
  /\ \E o \in DOMAIN orders :
       orders[o].status = "pending" /\ HasInitiatedTransaction(o)

RunsQuery(c, q) ==
  \/ Free(c) /\ calls'[c].op = "getMyBalance" /\ calls'[c].arg = q
  \/ At(c, "getMyBalance", "second") /\ calls[c].arg # q /\ calls'[c] = Idle

QueryCaller(c) == IF Free(c) THEN calls'[c].user ELSE calls[c].user

\* the sum the select of that step yields
QueryValue(c, q) ==
  IF Free(c) THEN calls'[c].exp
  ELSE IF q = "availableQuery" THEN last'.available_cents
  ELSE last'.pending_cents

RECURSIVE ExpectedTotal(_, _, _)
\* total_cents of the first n orders that are on u's listings in status s
ExpectedTotal(u, s, n) ==
  IF n = 0 THEN 0
  ELSE ExpectedTotal(u, s, n - 1) +
         (IF listings[orders[n].listing_id].seller_id = u
               /\ orders[n].status = s
            THEN orders[n].total_cents ELSE 0)

RECURSIVE NonFailedPayouts(_, _)
\* amount_cents of the first n payouts that are u's and have not failed
NonFailedPayouts(u, n) ==
  IF n = 0 THEN 0
  ELSE NonFailedPayouts(u, n - 1) +
         (IF payouts[n].seller_id = u /\ payouts[n].status # "failed"
            THEN payouts[n].amount_cents ELSE 0)

\* C24: available_cents is the total of the complete orders on the
\* seller's listings minus the amounts of the seller's payouts that have
\* not failed.
C24_AvailableNetOfPayouts ==
  [][\A c \in Slots :
       RunsQuery(c, "availableQuery") =>
         QueryValue(c, "availableQuery") =
           ExpectedTotal(QueryCaller(c), "complete", Len(orders))
             - NonFailedPayouts(QueryCaller(c), Len(payouts))]_vars

\* C25: pending_cents is the total of exactly the delivered orders on the
\* seller's listings, as they are when the sum is selected, and is
\* returned as selected.
C25_PendingIsDeliveredTotal ==
  [][StepOf("getMyBalance") =>
     \A c \in Slots :
       /\ RunsQuery(c, "pendingQuery") =>
            QueryValue(c, "pendingQuery") =
              ExpectedTotal(QueryCaller(c), "delivered", Len(orders))
       /\ (GetMyBalanceSecond(c) /\ calls[c].arg = "pendingQuery") =>
            last'.pending_cents = calls[c].exp]_vars

C25_Witness ==
  /\ last.op = "getMyBalance"
  /\ last.pending_cents = DeliveredCents
  /\ Len(orders) = 3
  /\ orders[1].status = "complete"
  /\ orders[2].status = "delivered"
  /\ orders[3].status = "pending"
  /\ \A c \in Slots : Free(c)

\* C26: request-payout fails with NotFound for a seller who does not exist
\* and with InvalidAmount for an amount that is not positive or above the
\* ceiling, and creates no payout then; otherwise it adds exactly one
\* payout of that seller, requested, of the requested amount, with no
\* provider reference, and leaves the existing payouts as they were.
C26_RequestPayout ==
  [][StepOf("requestPayout") =>
     \A c \in Slots :
       /\ \A u \in SellerCallers \cup {fakeSellerId}, a \in PayoutAmounts :
            RequestPayoutSelect(c, u, a) =>
              /\ payouts' = payouts
              /\ IF u \notin Users
                   THEN last' = Response("requestPayout", "NotFound")
                        /\ calls'[c] = Idle
                 ELSE IF a <= 0 \/ a > PayoutCeilingCents
                   THEN last' = Response("requestPayout", "InvalidAmount")
                        /\ calls'[c] = Idle
                   ELSE /\ calls'[c].pc = "insert"
                        /\ calls'[c].user = u
                        /\ calls'[c].exp = a
       /\ RequestPayoutInsert(c) =>
            /\ last' = Response("requestPayout", "ok")
            /\ Len(payouts') = Len(payouts) + 1
            /\ \A i \in DOMAIN payouts : payouts'[i] = payouts[i]
            /\ payouts'[Len(payouts')] =
                 [seller_id |-> calls[c].user, amount_cents |-> calls[c].exp,
                  status |-> "requested", provider_ref |-> NULL]]_vars

C26_Witness ==
  /\ last = Response("requestPayout", "ok")
  /\ Len(payouts) = MaxPayouts
  /\ payouts[1].status = "paid"
  /\ payouts[MaxPayouts].status = "requested"
  /\ payouts[MaxPayouts].amount_cents = PayoutCeilingCents

\* C27: paid and failed are terminal: a payout in one of them is never
\* changed again, whatever process-payout calls are made on it.
C27_PaidAndFailedTerminal ==
  [][\A p \in DOMAIN payouts :
       payouts[p].status \in {"paid", "failed"} =>
         payouts'[p] = payouts[p]]_vars

\* C28: process-payout fails with Forbidden for a caller who does not
\* exist or is not an admin, whether or not the payout exists, and with
\* NotFound for an admin naming a payout that does not exist; no payout is
\* changed in either case.
C28_ProcessPayoutRejected ==
  [][StepOf("processPayoutAdmin") =>
     \A c \in Slots :
       /\ \A p \in PayoutIds, u \in SellerCallers \cup {fakeAdminId},
             a \in PayoutActions :
            ProcessPayoutAdminSelectAdmin(c, p, u, a) =>
              /\ payouts' = payouts
              /\ IF u \notin Users \/ Role(u) # "admin"
                   THEN last' = Response("processPayoutAdmin", "Forbidden")
                        /\ calls'[c] = Idle
                   ELSE calls'[c].pc = "selectPayout"
       /\ (ProcessPayoutAdminSelectPayout(c)
             /\ calls[c].payout \notin DOMAIN payouts) =>
            /\ last' = Response("processPayoutAdmin", "NotFound")
            /\ calls'[c] = Idle
            /\ payouts' = payouts]_vars

C28_Witness ==
  /\ last = Response("processPayoutAdmin", "Forbidden")
  /\ Len(payouts) = 1
  /\ payouts[1].status = "requested"

StoreInFlight(l) ==
  \E c \in Slots : calls[c].op = "setListingPayload" /\ calls[c].listing = l

\* C29: a listing never has more than one payload row; once the stores of
\* a listing have returned, a listing with a payload has
\* has_secure_payload set; a store that writes its row leaves it as the
\* listing's only row; and a store by a caller who does not own the
\* listing fails and changes neither the rows nor the flag.
C29_OnePayloadPerListing ==
  /\ [](\A l \in Listings : Cardinality(PayloadsOf(l)) <= 1)
  /\ [](\A l \in Listings :
          (HasPayload(l) /\ ~StoreInFlight(l)) =>
            listings[l].has_secure_payload)
  /\ [][\A c \in Slots :
          (SetListingPayloadInsert(c) /\ payloads' # payloads) =>
            PayloadsOf(calls[c].listing)' =
              {[listing_id |-> calls[c].listing,
                cipher_text |->
                  Encrypt(calls[c].key, calls[c].nonce, calls[c].arg),
                nonce |-> calls[c].nonce]}]_vars
  /\ [][StepOf("setListingPayload") =>
        \A c \in Slots, l \in Listings, u \in SellerCallers :
          ((\E p \in Plaintexts, k \in Keys, n \in Nonces :
              SetListingPayloadSelect(c, l, u, p, k, n))
             /\ listings[l].seller_id # u) =>
            /\ last' = Response("setListingPayload", "NotFoundOrDenied")
            /\ UNCHANGED <<payloads, listings>>]_vars

C29_Witness ==
  /\ last = Response("setListingPayload", "ok")
  /\ \A c \in Slots : Free(c)
  /\ \E r \in payloads :
       r.cipher_text = Encrypt("k2", "n2", "username:password456")
  /\ \A l \in Listings : listings[l].has_secure_payload

\* C30: the credentials get-order discloses to the buyer are the plaintext
\* stored last for the order's listing, the one its payload row encrypts.
C30_DisclosedIsStoredPlaintext ==
  [][\A o \in DOMAIN orders, u \in Callers, role \in userRoleEnum :
       (GetOrder(o, u, role) /\ last'.creds) =>
         \E r \in PayloadsOf(orders[o].listing_id), k \in Keys :
           r.cipher_text = Encrypt(k, r.nonce, last'.decryptedCredentials)]_vars

Quiescent == \A c \in Slots : Free(c)

HasOpenDispute(o) == \E d \in DisputesOf(o) : disputes[d].status = "open"

\* C31: an order is disputed if and only if it has an open dispute; here
\* for the states in which every call has returned, after open-dispute ran
\* between the statements of acknowledge-delivery.
C31_DisputedIffOpenDispute ==
  Quiescent =>
    \A o \in DOMAIN orders :
      orders[o].status = "disputed" <=> HasOpenDispute(o)

\* C32: a dispute's status and its order's status agree (refunded with
\* refunded, resolved_seller with complete); here for the states in which
\* every call has returned, after two resolutions of the same open dispute
\* ran concurrently.
C32_DisputeAndOrderAgree ==
  Quiescent =>
    \A d \in DOMAIN disputes :
      /\ disputes[d].status = "refunded" =>
           orders[disputes[d].order_id].status = "refunded"
      /\ disputes[d].status = "resolved_seller" =>
           orders[disputes[d].order_id].status = "complete"

\* C33: a payout leaves status requested at most once: the update of a
\* process-payout call is only ever applied to a payout that is still
\* requested.
C33_UpdateOnlyWhileRequested ==
  [][\A c \in Slots :
       ProcessPayoutAdminUpdate(c) =>
         payouts[calls[c].payout].status = "requested"]_vars

\* C34: in every state a payout has a provider reference if and only if it
\* is paid, and no payout is in status processing.
C34_ReferenceIffPaid ==
  \A p \in DOMAIN payouts :
    /\ payouts[p].provider_ref # NULL <=> payouts[p].status = "paid"
    /\ payouts[p].status # "processing"

\* C35: in every state, for every seller, the amounts of the seller's
\* payouts that have not failed add up to no more than the totals of the
\* complete orders on the seller's listings.
C35_PayoutsWithinRevenue ==
  \A u \in SellerCallers :
    NonFailedPayouts(u, Len(payouts))
      <= ExpectedTotal(u, "complete", Len(orders))

\* C36: create-order on an available listing by a user other than its
\* seller goes through whatever orders exist for the listing: the listing
\* check passes, the insert adds a pending order next to the existing ones
\* and changes none of them, and the call returns success.
C36_PendingOrdersCoexist ==
  [][StepOf("createPaymentIntent") =>
     /\ \A c \in Slots, l \in Listings, u \in Callers :
          (/\ listings[l].status = "available"
           /\ listings[l].seller_id # u
           /\ CreatePaymentIntentSelectWithin(MaxCheckoutOrders, c, l, u)) =>
            calls'[c].pc = "insertOrder"
     /\ \A c \in Slots :
          (CreatePaymentIntentInsertOrder(c) /\ UserExists(calls[c].user)) =>
            /\ Len(orders') = Len(orders) + 1
            /\ orders'[Len(orders')].status = "pending"
            /\ orders'[Len(orders')].buyer_id = calls[c].user
            /\ \A o \in DOMAIN orders : orders'[o] = orders[o]
     /\ \A c \in Slots :
          CreatePaymentIntentInsertTransaction(c) =>
            last' = Response("createPaymentIntent", "ok")]_vars

C36_Witness ==
  /\ last = Response("createPaymentIntent", "ok")
  /\ Len(orders) = MaxCheckoutOrders
  /\ \A o \in DOMAIN orders :
       orders[o].status = "pending" /\ orders[o].listing_id = "L1"
  /\ \E o \in DOMAIN orders : orders[o].buyer_id = "buyer2"
  /\ \A l \in Listings : listings[l].status = "available"

\* C37: an order's buyer, listing, total and currency never change once
\* the order exists, whichever statement writes the row; every
\* transaction's amount equals its order's total and stays as it is; and
\* an upsert-listing, whether it changes the listing's price or inserts a
\* listing, changes no order, no transaction and no seller's balance.
C37_OrderFieldsFrozen ==
  /\ [][\A o \in DOMAIN orders :
          /\ orders'[o].buyer_id = orders[o].buyer_id
          /\ orders'[o].listing_id = orders[o].listing_id
          /\ orders'[o].total_cents = orders[o].total_cents
          /\ orders'[o].currency = orders[o].currency]_vars
  /\ [](\A t \in DOMAIN transactions :
          transactions[t].amount_cents =
            orders[transactions[t].order_id].total_cents)
  /\ [][\A t \in DOMAIN transactions :
          transactions'[t].amount_cents = transactions[t].amount_cents]_vars
  /\ [][StepOf("upsertListing") =>
        \A c \in Slots :
          (UpsertListingUpdate(c) \/ UpsertListingInsert(c)) =>
            /\ orders' = orders
            /\ transactions' = transactions
            /\ \A v \in SellerCallers :
                 /\ availableQuery(v)' = availableQuery(v)
                 /\ pendingQuery(v)' = pendingQuery(v)]_vars

C37_Witness ==
  /\ last.op = "getMyBalance"
  /\ last.available_cents = PriceCents
  /\ \A l \in Listings : listings[l].price_cents = RaisedPriceCents
  /\ \E o \in DOMAIN orders :
       /\ orders[o].status = "complete"
       /\ orders[o].total_cents = PriceCents
       /\ \E d \in DisputesOf(o) : disputes[d].status = "resolved_seller"

\* the rule of a row: pending without expires_at, paid or delivered with
DeadlineRule(r) ==
  /\ r.status = "pending" => r.expires_at = NULL
  /\ r.status \in {"paid", "delivered"} => r.expires_at # NULL

\* C38: a pending order has no expires_at and a paid or delivered order
\* has one, in every state the statements of the server lead to from a
\* ledger in which it is so: every row a statement inserts or writes has it
\* so after the statement, and no statement ends it for any row.
C38_DeadlineIffPastPending ==
  [][/\ \A o \in DOMAIN orders' :
          (o \notin DOMAIN orders \/ orders'[o] # orders[o]) =>
            DeadlineRule(orders'[o])
     /\ (\A o \in DOMAIN orders : DeadlineRule(orders[o])) =>
          (\A o \in DOMAIN orders' : DeadlineRule(orders'[o]))]_vars

C38_Witness ==
  /\ last = Response("acknowledgeDelivery", "ok")
  /\ \E o \in DOMAIN orders :
       /\ orders[o].status = "delivered"
       /\ orders[o].expires_at = Minutes(WindowHours)

ResolveInFlight(o) ==
  \E c \in Slots : calls[c].op = "resolveDispute" /\ calls[c].order = o

\* the order's dispute, once no resolution of it is running, is in status s
ResolvedAs(o, s) ==
  ~ResolveInFlight(o) /\ \E d \in DisputesOf(o) : disputes[d].status = s

RECURSIVE TotalWithout(_, _, _, _)
\* total_cents of the first n orders, x left out, that are on u's listings
\* in status s
TotalWithout(u, s, n, x) ==
  IF n = 0 THEN 0
  ELSE TotalWithout(u, s, n - 1, x) +
         (IF n # x /\ SellerOf(n) = u /\ orders[n].status = s
            THEN orders[n].total_cents ELSE 0)

\* C39: once a dispute is resolved for the seller its order's total is in
\* the seller's available_cents, and once it is resolved for the buyer or
\* refunded the order's total is in neither available_cents nor
\* pending_cents.
C39_BalanceFollowsResolution ==
  [][\A c \in Slots, o \in DOMAIN orders :
       /\ (/\ RunsQuery(c, "availableQuery")
           /\ SellerOf(o) = QueryCaller(c)
           /\ ResolvedAs(o, "resolved_seller")) =>
            QueryValue(c, "availableQuery") =
              TotalWithout(QueryCaller(c), "complete", Len(orders), o)
                + orders[o].total_cents
       /\ (/\ RunsQuery(c, "availableQuery")
           /\ SellerOf(o) = QueryCaller(c)
           /\ ResolvedAs(o, "refunded")) =>
            QueryValue(c, "availableQuery") =
              TotalWithout(QueryCaller(c), "complete", Len(orders), o)
       /\ (/\ RunsQuery(c, "pendingQuery")
           /\ SellerOf(o) = QueryCaller(c)
           /\ ResolvedAs(o, "refunded")) =>
            QueryValue(c, "pendingQuery") =
              TotalWithout(QueryCaller(c), "delivered", Len(orders), o)]_vars

====
